---- MODULE Spec2Model ----
(***************************************************************************)
(* SDF-viewer: a Streamlit molecule table in three variants               *)
(*   app = 1  SDF-viewer_app001.py  validated query, st.cache_data        *)
(*   app = 2  SDF-viewer_app002.py  raw query, lru_cache, slider paging   *)
(*   app = 3  SDF-viewer_app003.py  search + sliders + raw query,         *)
(*                                  lru_cache, page buttons               *)
(* Text is modelled as a sequence of one-character strings.               *)
(***************************************************************************)
EXTENDS Integers, Sequences, FiniteSets, TLC

\* ------------------------------------------------------------------------
\* Characters
\* ------------------------------------------------------------------------

LowerSeq ==
    <<"a","b","c","d","e","f","g","h","i","j","k","l","m",
      "n","o","p","q","r","s","t","u","v","w","x","y","z">>

UpperSeq ==
    <<"A","B","C","D","E","F","G","H","I","J","K","L","M",
      "N","O","P","Q","R","S","T","U","V","W","X","Y","Z">>

Lower == {LowerSeq[i] : i \in 1..26}

Upper == {UpperSeq[i] : i \in 1..26}

Digit == {"0","1","2","3","4","5","6","7","8","9"}

\* first and following characters of the token pattern's identifier
IdStart == Lower \cup Upper \cup {"_"}

IdChar == IdStart \cup Digit

\* a letter outside ASCII (U+00E9); Python's \w is Unicode-aware for str
NonAscii == {"U+00E9"}

\* \w of a Python 3 str pattern
WordChar == IdChar \cup NonAscii

\* the backtick character (pandas quotes a column name with it)
Backtick == "<backtick>"

\* \s
SpaceChar == {" "}

\* the punctuation of the allowed character class
AllowedPunct ==
    {"&", "|", "~", "<", ">", "=", "!", "(", ")", "[", "]", ",", ".", "'", "\""}

ToLowerChar(c) ==
    IF c \in Upper THEN LowerSeq[CHOOSE i \in 1..26 : UpperSeq[i] = c] ELSE c

ToLower(s) == [i \in 1..Len(s) |-> ToLowerChar(s[i])]

\* ------------------------------------------------------------------------
\* _validate_query (app001)
\* ------------------------------------------------------------------------

Denylist ==
    { <<"i","m","p","o","r","t">>, <<"e","x","e","c">>, <<"e","v","a","l">>,
      <<"o","s">>, <<"s","y","s">>,
      <<"s","u","b","p","r","o","c","e","s","s">> }

keywords ==
    { <<"a","n","d">>, <<"o","r">>, <<"n","o","t">>,
      <<"T","r","u","e">>, <<"F","a","l","s","e">> }

\* \b between positions i and i+1 of q (i = 0 and i = Len(q) are the edges)
WordBoundary(q, i) ==
    LET before == i >= 1 /\ q[i] \in WordChar
        after  == i < Len(q) /\ q[i + 1] \in WordChar
    IN  before # after

\* re.search(r"__|\b(import|exec|eval|os|sys|subprocess)\b", query)
UnsafeSearch(q) ==
    \/ \E i \in 1..(Len(q) - 1) : q[i] = "_" /\ q[i + 1] = "_"
    \/ \E i \in 1..Len(q) : \E j \in i..Len(q) :
          /\ SubSeq(q, i, j) \in Denylist
          /\ WordBoundary(q, i - 1)
          /\ WordBoundary(q, j)

\* an allowed character set that has the backtick in it
AllowedWithBacktick(q) ==
    /\ Len(q) >= 1
    /\ \A i \in 1..Len(q) :
          q[i] \in WordChar \cup SpaceChar \cup AllowedPunct \cup {Backtick}

\* allowed.fullmatch(query)
AllowedFullmatch(q) ==
    /\ Len(q) >= 1
    /\ \A i \in 1..Len(q) : q[i] \in WordChar \cup SpaceChar \cup AllowedPunct

\* end of the longest run of [A-Za-z0-9_] that starts at position i
RECURSIVE IdEnd(_, _)
IdEnd(q, i) ==
    IF i < Len(q) /\ q[i + 1] \in IdChar THEN IdEnd(q, i + 1) ELSE i

\* re.findall over the token pattern (optional backtick, identifier,
\* optional backtick), scanning from position i
RECURSIVE FindTokens(_, _)
FindTokens(q, i) ==
    IF i > Len(q) THEN << >>
    ELSE LET s == IF q[i] = Backtick /\ i < Len(q) /\ q[i + 1] \in IdStart
                  THEN i + 1 ELSE i
         IN  IF q[s] \in IdStart
             THEN LET e == IdEnd(q, s)
                      after == IF e < Len(q) /\ q[e + 1] = Backtick
                               THEN e + 2 ELSE e + 1
                  IN  <<SubSeq(q, s, e)>> \o FindTokens(q, after)
             ELSE FindTokens(q, i + 1)

\* float(token) succeeds; a token starts with a letter or an underscore
FloatParses(token) ==
    ToLower(token) \in { <<"n","a","n">>, <<"i","n","f">>,
                         <<"i","n","f","i","n","i","t","y">> }

_validate_query(query, columns) ==
    IF UnsafeSearch(query) THEN FALSE
    ELSE IF ~AllowedFullmatch(query) THEN FALSE
    ELSE LET tokens == FindTokens(query, 1)
         IN  \A k \in 1..Len(tokens) :
                 \/ tokens[k] \in columns
                 \/ tokens[k] \in keywords
                 \/ FloatParses(tokens[k])

\* ------------------------------------------------------------------------
\* Uploaded files and the tables load_data makes of them
\* ------------------------------------------------------------------------

\* rows of the large file; three pages at twenty rows a page
LibRows == 45

cSMILES == <<"S","M","I","L","E","S">>

cMW == <<"M","W">>

cLogP == <<"L","o","g","P">>

cName == <<"N","a","m","e">>

cIdx == <<"I","d","x">>

cStructure == <<"S","t","r","u","c","t","u","r","e">>

\* a missing number (NaN) and a missing text (None); real values are >= 0
NaN == 0 - 1

NoText == <<"<NA>">>

\* SMILES texts; sBad is text RDKit cannot parse
sCCO == <<"C","C","O">>

sRing == <<"c","c">>

sN == <<"N">>

sBad == <<"x","x">>

nAbc == <<"a","b","c">>

Files == {"lib.csv", "few.csv", "bad.csv", "empty.csv", "null.csv"}

\* file_name.split(".")[-1].lower()
FileType(f) ==
    CASE f \in {"lib.csv", "few.csv", "bad.csv", "empty.csv", "null.csv"}
            -> "csv"

\* pd.read_csv raises on a file with nothing to parse
ReadRaises(f) == f = "empty.csv"

\* columns of the table read from the file
FileColumns(f) ==
    CASE f = "lib.csv" -> <<cSMILES, cMW, cLogP>>
      [] f = "few.csv" -> <<cSMILES, cName, cMW, cLogP>>
      [] f = "bad.csv" -> <<cName, cMW>>
      [] f = "empty.csv" -> << >>
      [] f = "null.csv" -> <<cSMILES, cMW>>

\* rows of the table read from the file
FileRows(f) ==
    CASE f = "lib.csv" ->
            [i \in 1..LibRows |->
                [SMILES |-> <<sCCO, sRing, sN>>[(i % 3) + 1],
                 MW     |-> 100 + 10 * i,
                 LogP   |-> (3 * i) % 7,
                 Name   |-> NoText]]
      [] f = "few.csv" ->
            << [SMILES |-> NoText, MW |-> 150, LogP |-> NaN, Name |-> nAbc],
               [SMILES |-> sCCO,   MW |-> NaN, LogP |-> 2,   Name |-> NoText],
               [SMILES |-> sBad,   MW |-> 350, LogP |-> 1,   Name |-> nAbc] >>
      [] f = "bad.csv" ->
            << [SMILES |-> NoText, MW |-> 120, LogP |-> NaN,
                Name |-> nAbc] >>
      [] f = "empty.csv" -> << >>
      [] f = "null.csv" ->
            << [SMILES |-> NoText, MW |-> 120, LogP |-> NaN,
                Name |-> NoText] >>

\* load_data that hands on whatever table was read
load_unchecked(f) == [ok |-> TRUE, file |-> f]

\* load_data: the table, or the error it raises
load_data(f) ==
    IF FileType(f) \notin {"sdf", "csv"} \/ ReadRaises(f)
    THEN [ok |-> FALSE, file |-> f]
    ELSE IF \E k \in 1..Len(FileColumns(f)) : FileColumns(f)[k] = cSMILES
    THEN [ok |-> TRUE, file |-> f]
    ELSE [ok |-> FALSE, file |-> f]

NumericColumns == {cMW, cLogP, cIdx}

TextColumns == {cSMILES, cName, cStructure}

\* the value of a column in a row; Idx and Structure exist once
\* prepare_dataframe has added them (app001 filters the prepared table)
Cell(row, idx, col) ==
    CASE col = cMW -> row.MW
      [] col = cLogP -> row.LogP
      [] col = cIdx -> idx
      [] col = cSMILES -> row.SMILES
      [] col = cName -> row.Name
      [] col = cStructure -> row.SMILES

\* ------------------------------------------------------------------------
\* DataFrame.query on the expressions the model feeds it: a conjunction of
\* comparisons of a column with a literal; anything else raises
\* ------------------------------------------------------------------------

DigitSeq == <<"0","1","2","3","4","5","6","7","8","9">>

DigitVal(c) == (CHOOSE i \in 1..10 : DigitSeq[i] = c) - 1

RECURSIVE DigitEnd(_, _)
DigitEnd(q, i) ==
    IF i < Len(q) /\ q[i + 1] \in Digit THEN DigitEnd(q, i + 1) ELSE i

RECURSIVE NumVal(_)
NumVal(ds) ==
    IF Len(ds) = 0 THEN 0
    ELSE 10 * NumVal(SubSeq(ds, 1, Len(ds) - 1)) + DigitVal(ds[Len(ds)])

\* first position >= i holding character c, or 0
RECURSIVE FindChar(_, _, _)
FindChar(q, i, c) ==
    IF i > Len(q) THEN 0
    ELSE IF q[i] = c THEN i
    ELSE FindChar(q, i + 1, c)

CmpChars == {"<", ">", "=", "!"}

CmpOps == { <<"<">>, <<"<", "=">>, <<">">>, <<">", "=">>,
            <<"=", "=">>, <<"!", "=">> }

RECURSIVE Lex(_, _)
Lex(q, i) ==
    IF i > Len(q) THEN << >>
    ELSE IF q[i] \in SpaceChar THEN Lex(q, i + 1)
    ELSE IF q[i] \in IdStart
    THEN LET e == IdEnd(q, i)
         IN  IF e < Len(q) /\ q[e + 1] \in NonAscii
             THEN <<[t |-> "bad", v |-> << >>]>>
             ELSE <<[t |-> "name", v |-> SubSeq(q, i, e)]>> \o Lex(q, e + 1)
    ELSE IF q[i] = Backtick
    THEN LET j == FindChar(q, i + 1, Backtick)
         IN  IF j = 0 THEN <<[t |-> "bad", v |-> << >>]>>
             ELSE <<[t |-> "name", v |-> SubSeq(q, i + 1, j - 1)]>>
                      \o Lex(q, j + 1)
    ELSE IF q[i] \in Digit
    THEN LET e == DigitEnd(q, i)
         IN  IF e < Len(q) /\ q[e + 1] \in WordChar
             THEN <<[t |-> "bad", v |-> << >>]>>
             ELSE <<[t |-> "num", v |-> <<NumVal(SubSeq(q, i, e))>>]>>
                      \o Lex(q, e + 1)
    ELSE IF q[i] = "'"
    THEN LET j == FindChar(q, i + 1, "'")
         IN  IF j = 0 THEN <<[t |-> "bad", v |-> << >>]>>
             ELSE <<[t |-> "str", v |-> SubSeq(q, i + 1, j - 1)]>>
                      \o Lex(q, j + 1)
    ELSE IF q[i] \in CmpChars
    THEN IF i < Len(q) /\ q[i + 1] = "="
         THEN <<[t |-> "op", v |-> SubSeq(q, i, i + 1)]>> \o Lex(q, i + 2)
         ELSE <<[t |-> "op", v |-> <<q[i]>>]>> \o Lex(q, i + 1)
    ELSE IF q[i] = "&"
    THEN <<[t |-> "and", v |-> << >>]>> \o Lex(q, i + 1)
    ELSE <<[t |-> "bad", v |-> << >>]>>

\* the tokens are  column op literal (& column op literal)*  over the
\* table's columns, with a literal of the column's type
RECURSIVE Parses(_, _)
Parses(toks, columns) ==
    /\ Len(toks) >= 3
    /\ toks[1].t = "name" /\ toks[1].v \in columns
    /\ toks[2].t = "op" /\ toks[2].v \in CmpOps
    /\ \/ toks[3].t = "num" /\ toks[1].v \in NumericColumns
       \/ /\ toks[3].t = "str" /\ toks[1].v \in TextColumns
          /\ toks[2].v \in {<<"=", "=">>, <<"!", "=">>}
    /\ \/ Len(toks) = 3
       \/ /\ Len(toks) > 4
          /\ \/ toks[4].t = "and"
             \/ toks[4].t = "name" /\ toks[4].v = <<"a","n","d">>
          /\ Parses(SubSeq(toks, 5, Len(toks)), columns)

\* one comparison on one row; a missing value compares unequal to all
Compare(val, op, lit, numeric) ==
    LET missing == IF numeric THEN val = NaN ELSE val = NoText
    IN  IF missing THEN op = <<"!", "=">>
        ELSE CASE op = <<"=", "=">> -> val = lit
               [] op = <<"!", "=">> -> val # lit
               [] op = <<"<">> -> val < lit
               [] op = <<"<", "=">> -> val <= lit
               [] op = <<">">> -> val > lit
               [] op = <<">", "=">> -> val >= lit

RECURSIVE RowHolds(_, _, _)
RowHolds(toks, row, idx) ==
    LET numeric == toks[3].t = "num"
        lit == IF numeric THEN toks[3].v[1] ELSE toks[3].v
        here == Compare(Cell(row, idx, toks[1].v), toks[2].v, lit, numeric)
    IN  IF Len(toks) = 3 THEN here
        ELSE here /\ RowHolds(SubSeq(toks, 5, Len(toks)), row, idx)

\* df.query(query) on the view (a sequence of row numbers of the table);
\* ok = FALSE when pandas raises
DataFrame_query(rows, view, columns, query) ==
    LET toks == Lex(query, 1)
    IN  IF Parses(toks, columns)
        THEN [ok |-> TRUE,
              view |-> SelectSeq(view, LAMBDA r : RowHolds(toks, rows[r], r))]
        ELSE [ok |-> FALSE, view |-> view]

\* ------------------------------------------------------------------------
\* The render cache
\* ------------------------------------------------------------------------

\* capacity of functools.lru_cache in app002 and app003, scaled down from
\* the 500 of the source so that evictions happen
maxsize == 2

\* the body of _cached_svg: the drawing, or "" when RDKit returns no molecule
DrawSvg(smiles) ==
    IF smiles = sBad THEN << >> ELSE <<"<svg>">> \o smiles

\* position of the key in the cache entries, or 0
CachePos(entries, key) ==
    IF \E i \in 1..Len(entries) : entries[i].key = key
    THEN CHOOSE i \in 1..Len(entries) : entries[i].key = key
    ELSE 0

RemoveAt(seq, i) == SubSeq(seq, 1, i - 1) \o SubSeq(seq, i + 1, Len(seq))

\* a cache that evicts in insertion order: a hit does not renew the key
fifo_cache(cs, smiles) ==
    LET i == CachePos(cs.entries, smiles)
    IN  IF i > 0
        THEN [cs |-> [cs EXCEPT !.hits = cs.hits + 1],
              ret |-> cs.entries[i].val]
        ELSE LET val == DrawSvg(smiles)
                 kept == IF Len(cs.entries) >= maxsize
                         THEN Tail(cs.entries) ELSE cs.entries
             IN  [cs |-> [entries |-> kept \o <<[key |-> smiles, val |-> val]>>,
                          hits |-> cs.hits, misses |-> cs.misses + 1,
                          calls |-> cs.calls + 1],
                  ret |-> val]

\* functools.lru_cache(maxsize) around _cached_svg; cs = [entries, hits,
\* misses, calls], entries ordered least recently used first, calls counting
\* the runs of the function body.  Returns the cache and the value.
lru_cache(cs, smiles) ==
    LET i == CachePos(cs.entries, smiles)
    IN  IF i > 0
        THEN [cs |-> [entries |-> RemoveAt(cs.entries, i) \o <<cs.entries[i]>>,
                      hits |-> cs.hits + 1, misses |-> cs.misses,
                      calls |-> cs.calls],
              ret |-> cs.entries[i].val]
        ELSE LET val == DrawSvg(smiles)
                 kept == IF Len(cs.entries) >= maxsize
                         THEN Tail(cs.entries) ELSE cs.entries
             IN  [cs |-> [entries |-> kept \o <<[key |-> smiles, val |-> val]>>,
                          hits |-> cs.hits, misses |-> cs.misses + 1,
                          calls |-> cs.calls + 1],
                  ret |-> val]

\* the first locked section of the lru_cache wrapper: a hit renews the key
\* and returns the stored value, a miss is counted and the caller goes on
\* to run the function body without the lock
lru_lookup(cs, smiles) ==
    LET i == CachePos(cs.entries, smiles)
    IN  IF i > 0
        THEN [cs |-> [entries |-> RemoveAt(cs.entries, i) \o <<cs.entries[i]>>,
                      hits |-> cs.hits + 1, misses |-> cs.misses,
                      calls |-> cs.calls],
              hit |-> TRUE, ret |-> cs.entries[i].val]
        ELSE [cs |-> [cs EXCEPT !.misses = cs.misses + 1],
              hit |-> FALSE, ret |-> << >>]

\* a second locked section that inserts without looking for the key
lru_store_unchecked(cs, smiles, val) ==
    LET kept == IF Len(cs.entries) >= maxsize
                THEN Tail(cs.entries) ELSE cs.entries
    IN  [cs EXCEPT !.entries = kept \o <<[key |-> smiles, val |-> val]>>,
                   !.calls = cs.calls + 1]

\* the second locked section, after the function body has run: the value
\* is inserted unless the key was added in the meantime, the oldest entry
\* making room when the cache is full
lru_store(cs, smiles, val) ==
    IF CachePos(cs.entries, smiles) > 0
    THEN [cs EXCEPT !.calls = cs.calls + 1]
    ELSE LET kept == IF Len(cs.entries) >= maxsize
                     THEN Tail(cs.entries) ELSE cs.entries
         IN  [cs EXCEPT !.entries = kept \o <<[key |-> smiles, val |-> val]>>,
                        !.calls = cs.calls + 1]

\* st.cache_data around mol_to_svg_str in app001: no max_entries, no eviction
cache_data(cs, smiles) ==
    LET i == CachePos(cs.entries, smiles)
    IN  IF i > 0
        THEN [cs |-> [cs EXCEPT !.hits = cs.hits + 1],
              ret |-> cs.entries[i].val]
        ELSE LET svg == DrawSvg(smiles)
                 val == IF svg = << >> THEN << >> ELSE <<"<div>">> \o svg
             IN  [cs |-> [entries |-> cs.entries
                                        \o <<[key |-> smiles, val |-> val]>>,
                          hits |-> cs.hits, misses |-> cs.misses + 1,
                          calls |-> cs.calls + 1],
                  ret |-> val]

\* mol_to_svg_str: the cached drawing wrapped in a div
mol_to_svg_str(variant, cs, smiles) ==
    IF variant = 1 THEN cache_data(cs, smiles)
    ELSE LET c == lru_cache(cs, smiles)
         IN  [cs |-> c.cs,
              ret |-> IF c.ret = << >> THEN << >> ELSE <<"<div>">> \o c.ret]

\* one row of prepare_dataframe: its Idx, and its Structure from
\* mol_to_svg_str; a row with no SMILES gets "" and makes no lookup.
\* Returns the cache and the display row.
prepare_row(variant, cs, rows, slice, start_at, k) ==
    LET smi == rows[slice[k]].SMILES
        c == IF smi # NoText THEN mol_to_svg_str(variant, cs, smi)
             ELSE [cs |-> cs, ret |-> << >>]
    IN  [cs |-> c.cs,
         row |-> [r |-> slice[k], Idx |-> start_at + k, Structure |-> c.ret]]

\* ------------------------------------------------------------------------
\* Pagination (app003)
\* ------------------------------------------------------------------------

page_size_options == <<10, 20, 50, 100, 200>>

\* math.ceil(n / page_size)
Ceil(a, b) == IF a % b = 0 THEN a \div b ELSE (a \div b) + 1

\* main without the reset of an out-of-bounds page
KeepPage(current, total) == current

\* "Reset page if it's out of bounds (e.g., after filtering)"
ResetPage(current, total) == IF current > total THEN 1 ELSE current

\* a slice that starts one page too far
SliceStartNext(current, size) == current * size

\* start_idx = (current_page - 1) * page_size
SliceStart(current, size) == (current - 1) * size

\* end_idx = min(start_idx + page_size, n)
SliceEnd(first, size, rows) ==
    IF first + size <= rows THEN first + size ELSE rows

\* df.iloc[first:last]: the rows at 0-based positions first..last-1 that
\* exist
iloc(df, first, last) ==
    SubSeq(df, (IF first <= Len(df) THEN first ELSE Len(df)) + 1,
               IF last <= Len(df) THEN last ELSE Len(df))

\* st.button(label, disabled=...): a disabled button is never pressed
button(pressed, disabled) == pressed /\ ~disabled

\* st.number_input(min_value, max_value, value): the widget returns the
\* number the user entered, which it keeps within min_value..max_value, and
\* value when nothing was entered (typed = 0)
number_input(typed, min_value, max_value, value) ==
    IF typed \in min_value..max_value THEN typed ELSE value

\* controls that ignore the jump-to-page input
buttons_only(current, total, first_page, prev_page, jump_page, next_page, last_page) ==
    IF first_page THEN 1
    ELSE IF prev_page /\ current > 1 THEN current - 1
    ELSE IF next_page /\ current < total THEN current + 1
    ELSE IF last_page THEN total
    ELSE current

\* display_pagination_controls: the new page from the button states and
\* the jump-to-page input
display_pagination_controls(current, total, first_page, prev_page, jump_page, next_page, last_page) ==
    IF first_page THEN 1
    ELSE IF prev_page /\ current > 1 THEN current - 1
    ELSE IF next_page /\ current < total THEN current + 1
    ELSE IF last_page THEN total
    ELSE IF jump_page # current THEN jump_page
    ELSE current

\* ------------------------------------------------------------------------
\* The filter steps
\* ------------------------------------------------------------------------

Max(a, b) == IF a >= b THEN a ELSE b

Min(a, b) == IF a <= b THEN a ELSE b

\* seq[:k]
Take(seq, k) == SubSeq(seq, 1, Min(k, Len(seq)))

AllRows(rows) == [i \in 1..Len(rows) |-> i]

SeqToSet(seq) == {seq[i] : i \in 1..Len(seq)}

\* filter_dataframe of app001: the builder's query when "Apply Filter" was
\* pressed with a value, else the manual query; validated, then evaluated.
\* build = [on, col, op, val]
filter_dataframe_1(rows, columns, build, manual_query) ==
    LET q == IF build.on /\ build.val # << >>
             THEN <<Backtick>> \o build.col \o <<Backtick, " ">>
                      \o build.op \o <<" ">> \o build.val
             ELSE manual_query
        all == AllRows(rows)
    IN  IF q = << >>
        THEN [view |-> all, error |-> "", validated |-> FALSE,
              evaluated |-> FALSE]
        ELSE IF _validate_query(q, columns)
        THEN LET res == DataFrame_query(rows, all, columns, q)
             IN  [view |-> res.view,
                  error |-> IF res.ok THEN "" ELSE "Filter error",
                  validated |-> TRUE, evaluated |-> TRUE]
        ELSE [view |-> all, error |-> "Invalid or unsafe query.",
              validated |-> FALSE, evaluated |-> FALSE]

\* filter_dataframe of app002: the query goes straight to DataFrame.query
filter_dataframe_2(rows, columns, q) ==
    LET all == AllRows(rows)
    IN  IF q = << >>
        THEN [view |-> all, error |-> "", validated |-> FALSE,
              evaluated |-> FALSE]
        ELSE LET res == DataFrame_query(rows, all, columns, q)
             IN  [view |-> res.view,
                  error |-> IF res.ok THEN "" ELSE "Filter error",
                  validated |-> FALSE, evaluated |-> TRUE]

\* Series.str.contains(pat, case=False, na=False): pat is a regular
\* expression, and an unbalanced parenthesis makes re raise
Count(seq, c) == Cardinality({i \in 1..Len(seq) : seq[i] = c})

RegexRaises(pat) == Count(pat, "(") # Count(pat, ")")

\* a column read with no text in any row is numeric, and its .str accessor
\* raises
StrRaises(rows) == \A i \in 1..Len(rows) : rows[i].SMILES = NoText

Contains(text, pat) ==
    /\ text # NoText
    /\ \E i \in 1..(Len(text) - Len(pat) + 1) :
          SubSeq(ToLower(text), i, i + Len(pat) - 1) = ToLower(pat)

\* df[col].min() and df[col].max(): missing values are skipped
ColValues(rows, col) ==
    {Cell(rows[i], i, col) : i \in 1..Len(rows)} \ {NaN}

col_min(rows, col) ==
    CHOOSE v \in ColValues(rows, col) : \A w \in ColValues(rows, col) : v <= w

col_max(rows, col) ==
    CHOOSE v \in ColValues(rows, col) : \A w \in ColValues(rows, col) : v >= w

\* the (min_val, max_val) a slider returns: the full range unless the user
\* has dragged the upper handle down to the middle
SliderValue(rows, col, setting) ==
    IF setting = "low"
    THEN <<col_min(rows, col),
           (col_min(rows, col) + col_max(rows, col)) \div 2>>
    ELSE <<col_min(rows, col), col_max(rows, col)>>

\* numeric columns that get a slider: the first five with a range
SliderColumns(rows, columns) ==
    SelectSeq(Take(SelectSeq(columns, LAMBDA c : c \in NumericColumns), 5),
              LAMBDA c : /\ ColValues(rows, c) # {}
                         /\ col_min(rows, c) # col_max(rows, c))

RECURSIVE ApplySliders(_, _, _, _, _)
ApplySliders(rows, view, cols, settings, k) ==
    IF k > Len(cols) THEN view
    ELSE LET range == SliderValue(rows, cols[k], settings[cols[k]])
             kept == SelectSeq(view, LAMBDA r :
                         /\ Cell(rows[r], r, cols[k]) # NaN
                         /\ Cell(rows[r], r, cols[k]) >= range[1]
                         /\ Cell(rows[r], r, cols[k]) <= range[2])
         IN  ApplySliders(rows, kept, cols, settings, k + 1)

\* search_dataframe of app003: SMILES search, then the sliders, then the
\* query, all inside one try; an exception keeps what was filtered so far
search_dataframe(rows, columns, search, settings, q) ==
    LET all == AllRows(rows)
        v1 == IF search = << >> THEN all
              ELSE SelectSeq(all, LAMBDA r : Contains(rows[r].SMILES, search))
        v2 == ApplySliders(rows, v1, SliderColumns(rows, columns), settings, 1)
    IN  IF search # << >> /\ (StrRaises(rows) \/ RegexRaises(search))
        THEN [view |-> all, error |-> "Filter error", validated |-> FALSE,
              evaluated |-> FALSE]
        ELSE IF q = << >>
        THEN [view |-> v2, error |-> "", validated |-> FALSE,
              evaluated |-> FALSE]
        ELSE LET res == DataFrame_query(rows, v2, SeqToSet(columns), q)
             IN  [view |-> res.view,
                  error |-> IF res.ok THEN "" ELSE "Filter error",
                  validated |-> FALSE, evaluated |-> TRUE]

\* ------------------------------------------------------------------------
\* The application: one rerun of the script per user interaction
\* ------------------------------------------------------------------------

\* user interactions per behaviour
MaxPasses == 3

\* how many of page_size_options the user picks from
MaxPageSizeIndex == 2

\* MW > 300 & LogP < 5
qBoth ==
    <<"M","W"," ",">"," ","3","0","0"," ","&"," ",
      "L","o","g","P"," ","<"," ","5">>

\* MW >  (passes validation, fails in evaluation)
qHalf == <<"M","W"," ",">">>

\* MW > 300 & __import__
qImport ==
    <<"M","W"," ",">"," ","3","0","0"," ","&"," ",
      "_","_","i","m","p","o","r","t","_","_">>

Queries == {<< >>, qBoth, qHalf, qImport}

\* cc ; c(  (an invalid regular expression)
Searches == {<< >>, <<"c","c">>, <<"c","(">>}

SliderSettings == {"full", "low"}

NoBuild == [on |-> FALSE, col |-> << >>, op |-> << >>, val |-> << >>]

\* what the user may type into the builder's Value box
BuildValues == {<< >>, <<"3","0","0">>, <<"a","b","c">>}

\* the builder's column, operation and value when Apply Filter is pressed
Builds ==
    [on : {TRUE}, col : {cSMILES, cName, cMW, cLogP}, op : CmpOps,
     val : BuildValues]

NoCmd == [at |-> "none", b |-> "none", p |-> 0]

Buttons == {"first", "prev", "next", "last"}

\* pages the user may type into the jump box
MaxJump == 3

Cmds ==
    [at : {"top", "bottom"}, b : Buttons, p : {0}]
        \cup [at : {"top", "bottom"}, b : {"jump"}, p : 1..MaxJump]

VARIABLES
    app,            \* which variant runs
    uploaded_file,  \* the file_uploader widget
    page_size,      \* the rows-per-page widget
    query,          \* the query text_input
    smiles_search,  \* the SMILES text_input of app003
    sliders,        \* the slider settings of app003, per column
    build,          \* the "Build filter" controls of app001
    cmd,            \* the navigation button or jump entered, for one run
    start,          \* the "Starting row" slider of app002
    current_page,   \* st.session_state.current_page
    svg_cache,      \* the render cache: entries, hits, misses, calls
    pc,             \* where the running script is
    raw_df,         \* the loaded file, "none" before load_data
    df_filtered,    \* the filtered view: row numbers of raw_df
    n,
    total_pages,
    start_idx,
    end_idx,
    window,         \* the slice handed to prepare_dataframe
    df_page,        \* the prepared rows
    displayed,      \* the table has been handed to AgGrid in this run
    errors,         \* messages shown in this run
    validated,      \* the query of this run passed _validate_query
    evaluated,      \* the query of this run was given to DataFrame.query
    steps,          \* the steps this run has taken, in order
    prev_view,      \* the view of the last run whose filter raised nothing
    new_page,       \* what display_pagination_controls returned last
    lookups,        \* the keys looked up in the cache one by one, in order
    ret,            \* what the last such lookup returned
    passes,         \* interactions so far
    cache_size,     \* the "SVG Cache Size" number_input of app003
    sessions        \* the calls of _cached_svg in flight, per session

vars ==
    <<app, uploaded_file, page_size, query, smiles_search, sliders, build, cmd,
      start, current_page, svg_cache, pc, raw_df, df_filtered, n, total_pages,
      start_idx, end_idx, window, df_page, displayed, errors, validated,
      evaluated, steps, prev_view, new_page, lookups, ret, passes,
      cache_size, sessions>>

widgets ==
    <<uploaded_file, page_size, query, smiles_search, sliders, build, cmd>>

locals ==
    <<raw_df, df_filtered, n, total_pages, start_idx, end_idx, window,
      df_page, displayed, errors, validated, evaluated, steps>>

EmptyCache == [entries |-> << >>, hits |-> 0, misses |-> 0, calls |-> 0]

\* the sessions that may call _cached_svg at the same time
Sessions == {"s1", "s2"}

NoCall == [at |-> "idle", key |-> << >>, ret |-> << >>]

\* the `value` of the "SVG Cache Size" input, on the scale of maxsize
DefaultCacheSize == maxsize

\* the settings the user may choose, on the same scale
CacheSizes == {maxsize - 1, maxsize, maxsize + 1}

Init ==
    /\ app \in {1, 2, 3}
    /\ uploaded_file = "none"
    /\ page_size = 20
    /\ query = << >>
    /\ smiles_search = << >>
    /\ sliders = [c \in {cMW, cLogP} |-> "full"]
    /\ build = NoBuild
    /\ cmd = NoCmd
    /\ start = 1
    /\ current_page = 1
    /\ svg_cache = EmptyCache
    /\ pc = "idle"
    /\ raw_df = "none"
    /\ df_filtered = << >>
    /\ n = 0
    /\ total_pages = 0
    /\ start_idx = 0
    /\ end_idx = 0
    /\ window = << >>
    /\ df_page = << >>
    /\ displayed = FALSE
    /\ errors = {}
    /\ validated = FALSE
    /\ evaluated = FALSE
    /\ steps = << >>
    /\ prev_view = << >>
    /\ new_page = 0
    /\ lookups = << >>
    /\ ret = << >>
    /\ passes = 0
    /\ cache_size = DefaultCacheSize
    /\ sessions = [s \in Sessions |-> NoCall]

\* a rerun starts the script from the top
BeginRun ==
    /\ pc' = "main"
    /\ raw_df' = "none"
    /\ df_filtered' = << >>
    /\ n' = 0
    /\ total_pages' = 0
    /\ start_idx' = 0
    /\ end_idx' = 0
    /\ window' = << >>
    /\ df_page' = << >>
    /\ displayed' = FALSE
    /\ errors' = {}
    /\ validated' = FALSE
    /\ evaluated' = FALSE
    /\ steps' = << >>

\* the user changes one widget, which reruns the script
Interact ==
    /\ pc = "idle"
    /\ passes < MaxPasses
    /\ passes' = passes + 1
    /\ BeginRun
    /\ UNCHANGED <<app, sessions, cache_size, current_page, svg_cache, prev_view, start, new_page,
                   lookups, ret>>

Upload(f) ==
    /\ Interact
    /\ uploaded_file' = f
    /\ sliders' = [c \in {cMW, cLogP} |-> "full"]
    /\ build' = NoBuild
    /\ cmd' = NoCmd
    /\ UNCHANGED <<page_size, query, smiles_search>>

SetPageSize(k) ==
    /\ Interact
    /\ app \in {2, 3}
    /\ page_size' = page_size_options[k]
    /\ build' = NoBuild
    /\ cmd' = NoCmd
    /\ UNCHANGED <<uploaded_file, query, smiles_search, sliders>>

TypeQuery(q) ==
    /\ Interact
    /\ query' = q
    /\ build' = NoBuild
    /\ cmd' = NoCmd
    /\ UNCHANGED <<uploaded_file, page_size, smiles_search, sliders>>

ApplyFilter(b) ==
    /\ Interact
    /\ app = 1
    /\ raw_df # "none"
    /\ b.col \in SeqToSet(FileColumns(raw_df))
    /\ build' = b
    /\ cmd' = NoCmd
    /\ UNCHANGED <<uploaded_file, page_size, query, smiles_search, sliders>>

TypeSearch(t) ==
    /\ Interact
    /\ app = 3
    /\ uploaded_file # "none"
    /\ smiles_search' = t
    /\ build' = NoBuild
    /\ cmd' = NoCmd
    /\ UNCHANGED <<uploaded_file, page_size, query, sliders>>

MoveSlider(v) ==
    /\ Interact
    /\ app = 3
    /\ raw_df # "none"
    /\ sliders' = [sliders EXCEPT ![cMW] = v]
    /\ build' = NoBuild
    /\ cmd' = NoCmd
    /\ UNCHANGED <<uploaded_file, page_size, query, smiles_search>>

\* the "SVG Cache Size" input in the Performance Settings expander
SetCacheSize(c) ==
    /\ pc = "idle"
    /\ app = 3
    /\ passes < MaxPasses
    /\ passes' = passes + 1
    /\ BeginRun
    /\ cache_size' = c
    /\ build' = NoBuild
    /\ cmd' = NoCmd
    /\ UNCHANGED <<app, sessions, uploaded_file, page_size, query,
                   smiles_search, sliders, current_page, svg_cache, prev_view,
                   start, new_page, lookups, ret>>

\* a navigation button or the jump box; they exist once a table is shown
Navigate(c) ==
    /\ Interact
    /\ app = 3
    /\ displayed
    /\ c.b \in {"first", "prev"} => current_page # 1
    /\ c.b \in {"next", "last"} => current_page # total_pages
    /\ c.b = "jump" => c.p <= total_pages
    /\ cmd' = c
    /\ build' = NoBuild
    /\ UNCHANGED <<uploaded_file, page_size, query, smiles_search, sliders>>

\* columns the query may name: app001 filters the prepared table, which
\* has Idx and Structure in front
QueryColumns(variant, f) ==
    IF variant = 1 THEN {cIdx, cStructure} \cup SeqToSet(FileColumns(f))
    ELSE SeqToSet(FileColumns(f))

\* main up to load_data: no file ends the run; a load error is shown and
\* ends the run
Main ==
    /\ pc = "main"
    /\ IF uploaded_file = "none"
       THEN /\ pc' = "idle"
            /\ UNCHANGED <<raw_df, errors, window>>
       ELSE IF load_data(uploaded_file).ok
       THEN /\ raw_df' = uploaded_file
            /\ pc' = IF app = 1 THEN "prepare" ELSE "filter"
            /\ window' = IF app = 1 THEN AllRows(FileRows(uploaded_file))
                         ELSE window
            /\ UNCHANGED errors
       ELSE /\ errors' = errors \cup {"load error"}
            /\ pc' = "idle"
            /\ UNCHANGED <<raw_df, window>>
    /\ UNCHANGED <<app, sessions, cache_size, widgets, start, current_page, svg_cache, df_filtered,
                   n, total_pages, start_idx, end_idx, df_page, displayed,
                   validated, evaluated, steps, prev_view, new_page, lookups,
                   ret, passes>>

\* prepare_dataframe on the slice (app001: on the whole table), one row of
\* df.apply at a time; df_page holds the rows made so far
Prepare ==
    /\ pc = "prepare"
    /\ LET k == Len(df_page) + 1
           res == prepare_row(app, svg_cache, FileRows(raw_df), window,
                              start_idx, k)
       IN  IF k <= Len(window)
           THEN /\ svg_cache' = res.cs
                /\ df_page' = Append(df_page, res.row)
           ELSE UNCHANGED <<svg_cache, df_page>>
    /\ IF Len(df_page) + 1 >= Len(window)
       THEN /\ steps' = Append(steps, "render")
            /\ pc' = IF app = 1 THEN "filter" ELSE "display"
       ELSE UNCHANGED <<steps, pc>>
    /\ UNCHANGED <<app, sessions, cache_size, widgets, start, current_page, raw_df, df_filtered, n,
                   total_pages, start_idx, end_idx, window, displayed, errors,
                   validated, evaluated, prev_view, new_page, lookups, ret,
                   passes>>

\* what every filter step leaves behind
Filtered(res) ==
    /\ df_filtered' = res.view
    /\ n' = Len(res.view)
    /\ errors' = IF res.error = "" THEN errors ELSE errors \cup {res.error}
    /\ validated' = res.validated
    /\ evaluated' = res.evaluated
    /\ prev_view' = IF res.error = "" THEN res.view ELSE prev_view
    /\ steps' = Append(steps, "filter")

Filter1 ==
    /\ pc = "filter"
    /\ app = 1
    /\ LET res == filter_dataframe_1(FileRows(raw_df), QueryColumns(1, raw_df),
                                     build, query)
       IN  /\ Filtered(res)
           /\ df_page' = SelectSeq(df_page,
                             LAMBDA d : d.r \in SeqToSet(res.view))
    /\ pc' = "display"
    /\ UNCHANGED <<app, sessions, cache_size, widgets, start, current_page, svg_cache, raw_df,
                   total_pages, start_idx, end_idx, window, displayed, new_page,
                   lookups, ret, passes>>

Filter2 ==
    /\ pc = "filter"
    /\ app = 2
    /\ Filtered(filter_dataframe_2(FileRows(raw_df), QueryColumns(2, raw_df),
                                   query))
    /\ pc' = "window"
    /\ UNCHANGED <<app, sessions, cache_size, widgets, start, current_page, svg_cache, raw_df,
                   total_pages, start_idx, end_idx, window, df_page, displayed,
                   new_page, lookups, ret, passes>>

Filter3 ==
    /\ pc = "filter"
    /\ app = 3
    /\ Filtered(search_dataframe(FileRows(raw_df), FileColumns(raw_df),
                                 smiles_search, sliders, query))
    /\ pc' = "paginate"
    /\ UNCHANGED <<app, sessions, cache_size, widgets, start, current_page, svg_cache, raw_df,
                   total_pages, start_idx, end_idx, window, df_page, displayed,
                   new_page, lookups, ret, passes>>

\* app002: the n == 0 exit, the "Starting row" slider and the slice
Window2(s) ==
    /\ pc = "window"
    /\ app = 2
    /\ IF n = 0
       THEN /\ errors' = errors \cup {"No rows to display after filtering."}
            /\ pc' = "idle"
            /\ UNCHANGED <<start, end_idx, window, steps>>
       ELSE /\ s \in 1..Max(n - page_size + 1, 1)
            /\ start' = s
            /\ end_idx' = Min(s + page_size - 1, n)
            /\ window' = SubSeq(df_filtered, s, Min(s + page_size - 1, n))
            /\ steps' = Append(steps, "window")
            /\ pc' = "prepare"
            /\ UNCHANGED errors
    /\ UNCHANGED <<app, sessions, cache_size, widgets, current_page, svg_cache, raw_df, df_filtered,
                   n, total_pages, start_idx, df_page, displayed, validated,
                   evaluated, prev_view, new_page, lookups, ret, passes>>

\* app003: the n == 0 exit, total_pages and the out-of-bounds reset
Paginate ==
    /\ pc = "paginate"
    /\ IF n = 0
       THEN /\ errors' = errors \cup {"No rows to display after filtering."}
            /\ pc' = "idle"
            /\ UNCHANGED <<total_pages, current_page>>
       ELSE /\ total_pages' = Ceil(n, page_size)
            /\ current_page' = ResetPage(current_page, Ceil(n, page_size))
            /\ pc' = "navtop"
            /\ UNCHANGED errors
    /\ UNCHANGED <<app, sessions, cache_size, widgets, start, svg_cache, raw_df, df_filtered, n,
                   start_idx, end_idx, window, df_page, displayed, validated,
                   evaluated, steps, prev_view, new_page, lookups, ret,
                   passes>>

\* the new page the controls at one place return in this run
NewPage(at) ==
    LET mine == cmd.at = at
    IN  display_pagination_controls(
            current_page, total_pages,
            button(mine /\ cmd.b = "first", current_page = 1),
            button(mine /\ cmd.b = "prev", current_page = 1),
            number_input(IF mine /\ cmd.b = "jump" THEN cmd.p ELSE 0,
                         1, total_pages, current_page),
            button(mine /\ cmd.b = "next", current_page = total_pages),
            button(mine /\ cmd.b = "last", current_page = total_pages))

\* st.rerun(): the run is abandoned and the script starts again; the
\* button that was pressed is no longer pressed
Rerun(page) ==
    /\ current_page' = page
    /\ cmd' = NoCmd
    /\ BeginRun
    /\ UNCHANGED <<app, sessions, cache_size, uploaded_file, page_size, query, smiles_search,
                   sliders, build, start, svg_cache, prev_view, lookups, ret,
                   passes>>

NavTop ==
    /\ pc = "navtop"
    /\ new_page' = NewPage("top")
    /\ IF NewPage("top") # current_page
       THEN Rerun(NewPage("top"))
       ELSE /\ pc' = "window"
            /\ UNCHANGED <<app, sessions, cache_size, widgets, start, current_page, svg_cache,
                           locals, prev_view, lookups, ret, passes>>

\* app003: start_idx, end_idx and the slice
Window3 ==
    /\ pc = "window"
    /\ app = 3
    /\ start_idx' = SliceStart(current_page, page_size)
    /\ end_idx' = SliceEnd(SliceStart(current_page, page_size), page_size, n)
    /\ window' = iloc(df_filtered, SliceStart(current_page, page_size),
                      SliceEnd(SliceStart(current_page, page_size),
                               page_size, n))
    /\ steps' = Append(steps, "window")
    /\ pc' = "prepare"
    /\ UNCHANGED <<app, sessions, cache_size, widgets, start, current_page, svg_cache, raw_df,
                   df_filtered, n, total_pages, df_page, displayed, errors,
                   validated, evaluated, prev_view, new_page, lookups, ret,
                   passes>>

\* build_aggrid_options and display_aggrid_table
Display ==
    /\ pc = "display"
    /\ displayed' = TRUE
    /\ steps' = Append(steps, "display")
    /\ pc' = IF app = 3 THEN "navbottom" ELSE "idle"
    /\ UNCHANGED <<app, sessions, cache_size, widgets, start, current_page, svg_cache, raw_df,
                   df_filtered, n, total_pages, start_idx, end_idx, window,
                   df_page, errors, validated, evaluated, prev_view, new_page,
                   lookups, ret, passes>>

NavBottom ==
    /\ pc = "navbottom"
    /\ new_page' = NewPage("bottom")
    /\ IF NewPage("bottom") # current_page
       THEN Rerun(NewPage("bottom"))
       ELSE /\ pc' = "stats"
            /\ UNCHANGED <<app, sessions, cache_size, widgets, start, current_page, svg_cache,
                           locals, prev_view, lookups, ret, passes>>

\* the "Performance Info" expander: hits / (hits + misses) raises
\* ZeroDivisionError when nothing has been looked up
Stats ==
    /\ pc = "stats"
    /\ errors' = IF svg_cache.hits + svg_cache.misses = 0
                 THEN errors \cup {"ZeroDivisionError"} ELSE errors
    /\ pc' = "idle"
    /\ UNCHANGED <<app, sessions, cache_size, widgets, start, current_page, svg_cache, raw_df,
                   df_filtered, n, total_pages, start_idx, end_idx, window,
                   df_page, displayed, validated, evaluated, steps, prev_view,
                   new_page, lookups, ret, passes>>

Next ==
    \/ \E f \in Files : Upload(f)
    \/ \E k \in 1..MaxPageSizeIndex : SetPageSize(k)
    \/ \E q \in Queries : TypeQuery(q)
    \/ \E b \in Builds : ApplyFilter(b)
    \/ \E t \in Searches : TypeSearch(t)
    \/ \E v \in SliderSettings : MoveSlider(v)
    \/ \E c \in CacheSizes : SetCacheSize(c)
    \/ \E c \in Cmds : Navigate(c)
    \/ Main
    \/ Prepare
    \/ Filter1
    \/ Filter2
    \/ Filter3
    \/ \E s \in 1..LibRows : Window2(s)
    \/ Paginate
    \/ NavTop
    \/ Window3
    \/ Display
    \/ NavBottom
    \/ Stats

Spec == Init /\ [][Next]_vars

\* ------------------------------------------------------------------------
\* _validate_query on its own: a query and a table are drawn, the
\* validator is applied
\* ------------------------------------------------------------------------

Sp == <<" ">>

Quoted(text) == <<"'">> \o text \o <<"'">>

\* numeric, string and boolean literals
Literals ==
    { <<"3","0","0">>, <<"5">>, <<"3",".","5">>, <<"1","e","5">>,
      Quoted(nAbc), Quoted(<<"3">>), <<"T","r","u","e">> }

\* comparisons  column op literal  over the given columns
Comparisons(columns) ==
    { c \o Sp \o op \o Sp \o lit :
          c \in columns, op \in CmpOps, lit \in Literals }

\* a few comparisons to combine others with
SomeComparisons(columns) ==
    { c \o Sp \o <<"<">> \o Sp \o <<"5">> : c \in columns \cap {cLogP, cMW} }

Combinators == { <<"&">>, <<"|">>, <<"a","n","d">>, <<"o","r">> }

\* expressions of the filter grammar over known columns and literals:
\* comparisons, two of them combined, negated or parenthesised
GrammarExprs(columns) ==
    Comparisons(columns)
        \cup { a \o Sp \o op \o Sp \o b :
                  a \in Comparisons(columns), op \in Combinators,
                  b \in SomeComparisons(columns) }
        \cup { <<"n","o","t">> \o Sp \o a : a \in SomeComparisons(columns) }
        \cup { <<"(">> \o a \o <<")">> : a \in SomeComparisons(columns) }

\* operands a filter should not get away with, and some look-alikes
OddOperands ==
    { <<"_","_","i","m","p","o","r","t","_","_">>, <<"o","s">>, <<"s","y","s">>,
      <<"e","v","a","l">>, <<"e","x","e","c">>, <<"i","m","p","o","r","t">>,
      <<"s","u","b","p","r","o","c","e","s","s">>,
      <<"f","o","o">>, <<"M","W","o","s">>, <<"o","s","_","1">>,
      <<"a","_","_","b">>, <<"3","a","b","c">>, <<"n","a","n">>,
      <<"I","n","f">>, <<"t","r","u","e">>, <<"U+00E9">>,
      <<"U+00E9","o","s">>, <<"M","W",".","o","s">>,
      <<Backtick,"M","W",Backtick>>, <<"-","5">>, <<"M","W",";">> }

OddExprs(columns) ==
    { o \o Sp \o <<">">> \o Sp \o <<"3">> : o \in OddOperands }
        \cup { a \o Sp \o <<"&">> \o Sp \o o :
                  a \in SomeComparisons(columns), o \in OddOperands }

ValidateQueries(f) ==
    GrammarExprs(QueryColumns(1, f)) \cup OddExprs(QueryColumns(1, f))

ValidateInit ==
    /\ Init
    /\ app = 1

\* filter_dataframe reaching _validate_query with a query and a table
ValidateDraw(f, q) ==
    /\ pc = "idle"
    /\ raw_df = "none"
    /\ raw_df' = f
    /\ query' = q
    /\ pc' = "validate"
    /\ UNCHANGED <<app, sessions, cache_size, uploaded_file, page_size, smiles_search, sliders,
                   build, cmd, start, current_page, svg_cache, df_filtered, n,
                   total_pages, start_idx, end_idx, window, df_page,
                   displayed, errors, validated, evaluated, steps, prev_view,
                   new_page, lookups, ret, passes>>

Validate ==
    /\ pc = "validate"
    /\ validated' = _validate_query(query, QueryColumns(1, raw_df))
    /\ pc' = "validated"
    /\ UNCHANGED <<app, sessions, cache_size, widgets, start, current_page, svg_cache, raw_df,
                   df_filtered, n, total_pages, start_idx, end_idx, window,
                   df_page, displayed, errors, evaluated, steps, prev_view,
                   new_page, lookups, ret, passes>>

ValidateNext ==
    \/ \E f \in {"lib.csv", "few.csv"} : \E q \in ValidateQueries(f) :
          ValidateDraw(f, q)
    \/ Validate

ValidateSpec == ValidateInit /\ [][ValidateNext]_vars

\* ------------------------------------------------------------------------
\* _cached_svg on its own: keys are looked up one at a time
\* ------------------------------------------------------------------------

\* lookups per behaviour
MaxLookups == 5

SmilesKeys == {sCCO, sRing, sN, sBad}

CacheInit ==
    /\ Init
    /\ app = 3

\* one call of _cached_svg(smiles)
Lookup(smiles) ==
    /\ Len(lookups) < MaxLookups
    /\ LET res == lru_cache(svg_cache, smiles)
       IN  /\ svg_cache' = res.cs
           /\ ret' = res.ret
    /\ lookups' = Append(lookups, smiles)
    /\ UNCHANGED <<app, sessions, cache_size, widgets, start, current_page, pc, locals, prev_view,
                   new_page, passes>>

CacheNext == \E smiles \in SmilesKeys : Lookup(smiles)

CacheSpec == CacheInit /\ [][CacheNext]_vars

\* ------------------------------------------------------------------------
\* _cached_svg called from several sessions: the two locked sections of
\* the wrapper are atomic, the function body runs between them
\* ------------------------------------------------------------------------

\* a session calls _cached_svg(smiles): the lookup
Call(s, smiles) ==
    /\ sessions[s].at \in {"idle", "done"}
    /\ Len(lookups) < MaxLookups
    /\ LET res == lru_lookup(svg_cache, smiles)
       IN  /\ svg_cache' = res.cs
           /\ sessions' = [sessions EXCEPT ![s] =
                  [at |-> IF res.hit THEN "done" ELSE "computing",
                   key |-> smiles, ret |-> res.ret]]
    /\ lookups' = Append(lookups, smiles)
    /\ UNCHANGED <<app, cache_size, widgets, start, current_page, pc, locals,
                   prev_view, new_page, ret, passes>>

\* the function body has run: the result is stored and returned
Return(s) ==
    /\ sessions[s].at = "computing"
    /\ svg_cache' = lru_store(svg_cache, sessions[s].key,
                              DrawSvg(sessions[s].key))
    /\ sessions' = [sessions EXCEPT ![s] =
           [at |-> "done", key |-> sessions[s].key,
            ret |-> DrawSvg(sessions[s].key)]]
    /\ UNCHANGED <<app, cache_size, widgets, start, current_page, pc, locals,
                   prev_view, new_page, lookups, ret, passes>>

SessionsNext ==
    \/ \E s \in Sessions : \E smiles \in SmilesKeys : Call(s, smiles)
    \/ \E s \in Sessions : Return(s)

SessionsSpec == CacheInit /\ [][SessionsNext]_vars

\* ------------------------------------------------------------------------
\* The pagination of app003 on its own: a view size, a page size, a page
\* and a command are drawn; the controls and the slice are computed
\* ------------------------------------------------------------------------

\* rows of the filtered view
MaxRows == 45

\* the button the user presses, or the page entered in the jump box
PagerCmds(total) ==
    {NoCmd} \cup [at : {"top"}, b : Buttons, p : {0}]
            \cup [at : {"top"}, b : {"jump"}, p : 1..total]

PagerInit ==
    /\ app = 3
    /\ uploaded_file = "lib.csv"
    /\ \E k \in 1..MaxPageSizeIndex : page_size = page_size_options[k]
    /\ query = << >>
    /\ smiles_search = << >>
    /\ sliders = [c \in {cMW, cLogP} |-> "full"]
    /\ build = NoBuild
    /\ start = 1
    /\ n \in 1..MaxRows
    /\ total_pages = Ceil(n, page_size)
    /\ current_page \in 1..total_pages
    /\ cmd \in PagerCmds(total_pages)
    /\ svg_cache = EmptyCache
    /\ pc = "navtop"
    /\ raw_df = "lib.csv"
    /\ df_filtered = [i \in 1..n |-> i]
    /\ start_idx = 0
    /\ end_idx = 0
    /\ window = << >>
    /\ df_page = << >>
    /\ displayed = FALSE
    /\ errors = {}
    /\ validated = FALSE
    /\ evaluated = FALSE
    /\ steps = <<"filter">>
    /\ prev_view = << >>
    /\ new_page = 0
    /\ lookups = << >>
    /\ ret = << >>
    /\ passes = 1
    /\ cache_size = DefaultCacheSize
    /\ sessions = [s \in Sessions |-> NoCall]

PagerNext == NavTop \/ Window3

PagerSpec == PagerInit /\ [][PagerNext]_vars

\* ------------------------------------------------------------------------
\* Properties
\* ------------------------------------------------------------------------

\* C1: in every variant the query text reaches DataFrame.query only after
\* it has passed validation.
C1_EvaluatedOnlyIfValidated == evaluated => validated

\* maximal runs of word characters of q, as pairs of positions
WordRuns(q) ==
    { r \in (1..Len(q)) \X (1..Len(q)) :
        /\ r[1] <= r[2]
        /\ \A k \in r[1]..r[2] : q[k] \in WordChar
        /\ r[1] = 1 \/ q[r[1] - 1] \notin WordChar
        /\ r[2] = Len(q) \/ q[r[2] + 1] \notin WordChar }

\* what the validator is to reject: a double underscore, a denylisted
\* identifier as a whole token, or an identifier that is no known column,
\* no keyword and no number
MustReject(q, columns) ==
    \/ \E i \in 1..(Len(q) - 1) : q[i] = "_" /\ q[i + 1] = "_"
    \/ \E r \in WordRuns(q) : SubSeq(q, r[1], r[2]) \in Denylist
    \/ \E r \in WordRuns(q) :
          /\ q[r[1]] \notin Digit
          /\ SubSeq(q, r[1], r[2]) \notin columns \cup keywords
          /\ ~FloatParses(SubSeq(q, r[1], r[2]))

\* C2: _validate_query rejects every query with a denylisted identifier, a
\* double underscore or an identifier that is no known column, keyword or
\* number.
C2_RejectsUnsafe ==
    (pc = "validated" /\ MustReject(query, QueryColumns(1, raw_df)))
        => ~validated

\* C3: _validate_query accepts every expression of the grammar built from
\* known columns, literals, comparison operators and boolean combinators.
C3_AcceptsGrammar ==
    (pc = "validated" /\ query \in GrammarExprs(QueryColumns(1, raw_df)))
        => validated

FilterFailed ==
    "Filter error" \in errors \/ "Invalid or unsafe query." \in errors

\* C4: when the filter text is rejected or its evaluation fails, the view
\* the filter step returns is the unfiltered dataset or the previous valid
\* view, and the run goes on to display.
C4_FailedFilterChangesNothing ==
    (FilterFailed /\ pc = "idle")
        => /\ \/ df_filtered = AllRows(FileRows(raw_df))
              \/ df_filtered = prev_view
           /\ displayed

\* C5: the render cache never holds more entries than its capacity.
C5_WithinCapacity == Len(svg_cache.entries) <= maxsize

CacheKeys(cs) == {cs.entries[i].key : i \in 1..Len(cs.entries)}

\* position of the last lookup of the key, 0 if it was never looked up
LastUse(history, key) ==
    IF \E i \in 1..Len(history) : history[i] = key
    THEN CHOOSE i \in 1..Len(history) :
             /\ history[i] = key
             /\ \A j \in (i + 1)..Len(history) : history[j] # key
    ELSE 0

\* the cached key whose last lookup is the oldest
LeastRecentlyUsed(cs, history) ==
    CHOOSE k \in CacheKeys(cs) :
        \A j \in CacheKeys(cs) : LastUse(history, k) <= LastUse(history, j)

StoredValue(cs, key) == cs.entries[CachePos(cs.entries, key)].val

\* one lookup: a hit returns what is stored, computes nothing and keeps
\* the keys; a miss computes, inserts and, when the cache was full, evicts
\* the least recently used key and only that
C6_Lookup ==
    \A k \in SmilesKeys :
        lookups' = Append(lookups, k) =>
            /\ svg_cache'.entries[Len(svg_cache'.entries)].key = k
            /\ IF k \in CacheKeys(svg_cache)
               THEN /\ ret' = StoredValue(svg_cache, k)
                    /\ svg_cache'.calls = svg_cache.calls
                    /\ svg_cache'.hits = svg_cache.hits + 1
                    /\ svg_cache'.misses = svg_cache.misses
                    /\ CacheKeys(svg_cache') = CacheKeys(svg_cache)
               ELSE /\ ret' = DrawSvg(k)
                    /\ svg_cache'.calls = svg_cache.calls + 1
                    /\ svg_cache'.hits = svg_cache.hits
                    /\ svg_cache'.misses = svg_cache.misses + 1
                    /\ CacheKeys(svg_cache') =
                          IF Cardinality(CacheKeys(svg_cache)) + 1 > maxsize
                          THEN (CacheKeys(svg_cache)
                                   \ {LeastRecentlyUsed(svg_cache, lookups)})
                                   \cup {k}
                          ELSE CacheKeys(svg_cache) \cup {k}

Distinct(seq, k) ==
    /\ Len(seq) >= k
    /\ \A i \in 1..k : \A j \in 1..k : i # j => seq[i] # seq[j]

\* capacity + 1 distinct keys evict exactly the first; looking the first
\* up again is a miss, looking up any of the others is a hit
C6_Scenario ==
    /\ (Len(lookups) = maxsize + 1 /\ Distinct(lookups, maxsize + 1))
          => CacheKeys(svg_cache) = {lookups[i] : i \in 2..(maxsize + 1)}
    /\ (Len(lookups) = maxsize + 2 /\ Distinct(lookups, maxsize + 1))
          => IF lookups[maxsize + 2] = lookups[1]
             THEN svg_cache.misses = maxsize + 2 /\ svg_cache.hits = 0
             ELSE (lookups[maxsize + 2] \in
                      {lookups[i] : i \in 2..(maxsize + 1)})
                      => svg_cache.misses = maxsize + 1 /\ svg_cache.hits = 1

\* entries are kept least recently used first, one per key
C6_Order ==
    /\ Cardinality(CacheKeys(svg_cache)) = Len(svg_cache.entries)
    /\ \A i \in 1..Len(svg_cache.entries) :
          \A j \in (i + 1)..Len(svg_cache.entries) :
              LastUse(lookups, svg_cache.entries[i].key)
                  < LastUse(lookups, svg_cache.entries[j].key)

\* C6: the render cache follows LRU discipline for every lookup sequence.
C6_LRU == [](C6_Order /\ C6_Scenario) /\ [][C6_Lookup]_vars

\* capacity + 1 distinct keys were looked up, then the first again: a miss
C6_Witness ==
    /\ Len(lookups) = maxsize + 2
    /\ Distinct(lookups, maxsize + 1)
    /\ lookups[maxsize + 2] = lookups[1]
    /\ svg_cache.misses = maxsize + 2
    /\ Len(svg_cache.entries) = maxsize

WindowComputed == \E i \in 1..Len(steps) : steps[i] = "window"

\* C7: in app003, whenever a page window is computed, the stored current
\* page is within 1..total_pages.
C7_PageInRange ==
    (app = 3 /\ WindowComputed)
        => (1 <= current_page /\ current_page <= total_pages)

\* a window computed on the last of three pages, after navigating there
C7_Witness ==
    /\ app = 3
    /\ WindowComputed
    /\ total_pages = 3
    /\ current_page = total_pages
    /\ start_idx = 40

Clamp(x, lo, hi) == IF x < lo THEN lo ELSE IF x > hi THEN hi ELSE x

\* the page a command asks for
CommandedPage(c, current, total) ==
    CASE c.b = "first" -> 1
      [] c.b = "prev" -> Max(current - 1, 1)
      [] c.b = "next" -> Min(current + 1, total)
      [] c.b = "last" -> total
      [] c.b = "jump" -> Clamp(c.p, 1, total)
      [] c.b = "none" -> current

\* C8: display_pagination_controls returns 1 for First, max(page-1, 1) for
\* Prev, min(page+1, total) for Next, total for Last, clamp(p, 1, total)
\* for JumpTo(p) and the current page when no command is issued.
C8_Commands ==
    [][(pc = "navtop" /\ cmd.at # "bottom")
          => new_page' = CommandedPage(cmd, current_page, total_pages)]_vars

\* Prev on page 1 and Next on the last of several pages changed nothing
C8_Witness ==
    /\ pc = "window"
    /\ new_page = current_page
    /\ \/ cmd.b = "prev" /\ current_page = 1
       \/ cmd.b = "next" /\ current_page = total_pages /\ total_pages = 3

\* 0-based positions of the view that page p shows
PagePositions(p) ==
    SliceStart(p, page_size)
        .. (SliceEnd(SliceStart(p, page_size), page_size, n) - 1)

\* C9: the window of page p is the rows of the view at positions
\* (p-1)*pageSize up to min(p*pageSize, n), in order; it is not empty, has
\* pageSize rows except possibly on the last page, and the windows of all
\* pages cover every row exactly once.
C9_Window ==
    (app = 3 /\ pc = "prepare")
        => /\ total_pages = Ceil(n, page_size)
           /\ start_idx = (current_page - 1) * page_size
           /\ end_idx = Min(current_page * page_size, n)
           /\ Len(window) =
                 Min(current_page * page_size, n)
                     - (current_page - 1) * page_size
           /\ \A i \in 1..Len(window) :
                 window[i] = df_filtered[(current_page - 1) * page_size + i]
           /\ Len(window) >= 1
           /\ current_page < total_pages => Len(window) = page_size
           /\ \A j \in 0..(n - 1) :
                 Cardinality({p \in 1..total_pages : j \in PagePositions(p)})
                     = 1

\* 45 rows at 20 a page: page 3 shows the last 5
C9_Witness ==
    /\ pc = "prepare"
    /\ n = 45
    /\ page_size = 20
    /\ current_page = 3
    /\ total_pages = 3
    /\ window = <<41, 42, 43, 44, 45>>

\* every render of the run comes after its filter and its window
RenderedInOrder ==
    \A i \in 1..Len(steps) :
        steps[i] = "render" =>
            \E j \in 1..(i - 1) : \E k \in (j + 1)..(i - 1) :
                steps[j] = "filter" /\ steps[k] = "window"

\* C10: within every run, in every variant, the filter is applied before
\* the page window is chosen and the window before any row is rendered.
C10_FilterPageRender == RenderedInOrder

HasSmiles(f) == \E k \in 1..Len(FileColumns(f)) : FileColumns(f)[k] = cSMILES

\* a run whose load failed shows the error and has done nothing else
C11_NothingAfterFailure ==
    /\ (raw_df # "none") => (HasSmiles(raw_df) /\ ~ReadRaises(raw_df))
    /\ (uploaded_file # "none" /\ pc \notin {"main"}
          /\ ~(HasSmiles(uploaded_file) /\ ~ReadRaises(uploaded_file)))
          => /\ pc = "idle"
             /\ "load error" \in errors
             /\ raw_df = "none"
             /\ steps = << >>
             /\ ~displayed
             /\ df_page = << >>
             /\ window = << >>

\* the step in which the load fails leaves page and cache as they were
C11_FailingLoad ==
    (pc = "main" /\ uploaded_file # "none"
       /\ ~(HasSmiles(uploaded_file) /\ ~ReadRaises(uploaded_file)))
        => /\ current_page' = current_page
           /\ page_size' = page_size
           /\ svg_cache' = svg_cache
           /\ pc' = "idle"

\* C11: when the table has no SMILES column or the file cannot be read,
\* load_data fails and the run ends with an error before any filter,
\* pagination, cache lookup or display; the page is left unchanged.
C11_LoadFailure == []C11_NothingAfterFailure /\ [][C11_FailingLoad]_vars

\* a file without SMILES column uploaded while page 3 was shown
C11_Witness ==
    /\ uploaded_file = "bad.csv"
    /\ "load error" \in errors
    /\ pc = "idle"
    /\ current_page = 3
    /\ svg_cache.misses > 0

C13_IdxIsPositionInView ==
    displayed =>
        \A k \in 1..Len(df_page) :
            /\ df_page[k].Idx \in 1..n
            /\ df_filtered[df_page[k].Idx] = df_page[k].r

\* C14: a stored page beyond the last page is clamped into 1..totalPages,
\* so it becomes totalPages, before the window is computed.
C14_StalePageClamped ==
    [][(pc = "paginate" /\ n > 0)
          => current_page' = Clamp(current_page, 1, Ceil(n, page_size))]_vars

FilterRan == \E i \in 1..Len(steps) : steps[i] = "filter"

\* C15: totalPages is ceil(n / pageSize) for n >= 1; with an empty view
\* totalPages is 1 and the run still goes through pagination and display
\* with an empty window on page 1.
C15_TotalPages ==
    /\ (app = 3 /\ n >= 1 /\ WindowComputed)
          => /\ total_pages * page_size >= n
             /\ (total_pages - 1) * page_size < n
    /\ (app = 3 /\ FilterRan /\ n = 0 /\ pc = "idle")
          => /\ total_pages = 1
             /\ current_page = 1
             /\ WindowComputed
             /\ window = << >>
             /\ displayed
    /\ (app = 2 /\ FilterRan /\ n = 0 /\ pc = "idle")
          => (WindowComputed /\ displayed)

\* the text occurs in the SMILES of the row, letter case ignored
HasSubstring(smiles, text) ==
    /\ smiles # NoText
    /\ \E i \in 0..(Len(smiles) - Len(text)) :
          \A j \in 1..Len(text) :
              ToLowerChar(smiles[i + j]) = ToLowerChar(text[j])

\* row r of the loaded table satisfies the SMILES search, every slider and
\* the query as they are set
SatisfiesAll(r) ==
    LET rows == FileRows(raw_df)
        cols == SliderColumns(rows, FileColumns(raw_df))
    IN  /\ smiles_search # << >>
              => HasSubstring(rows[r].SMILES, smiles_search)
        /\ \A k \in 1..Len(cols) :
              LET v == Cell(rows[r], r, cols[k])
                  range == SliderValue(rows, cols[k], sliders[cols[k]])
              IN  v # NaN /\ range[1] <= v /\ v <= range[2]
        /\ query # << >> => RowHolds(Lex(query, 1), rows[r], r)

\* C16: search_dataframe returns exactly the rows that satisfy the SMILES
\* search, every slider range and the query, in their original order.
C16_ExactlyTheMatchingRows ==
    (app = 3 /\ FilterRan
       /\ (query = << >>
             \/ Parses(Lex(query, 1), SeqToSet(FileColumns(raw_df)))))
        => df_filtered =
              SelectSeq(AllRows(FileRows(raw_df)), SatisfiesAll)

\* C17: when two sessions look up the same uncached key at the same time,
\* the cache afterwards holds one entry for the key and stays within its
\* capacity, both callers get the same artifact, and every lookup is
\* counted once as a hit or a miss.
C17_ConcurrentLookups ==
    /\ Cardinality(CacheKeys(svg_cache)) = Len(svg_cache.entries)
    /\ Len(svg_cache.entries) <= maxsize
    /\ svg_cache.hits + svg_cache.misses = Len(lookups)
    /\ \A s \in Sessions :
          sessions[s].at = "done" => sessions[s].ret = DrawSvg(sessions[s].key)
    /\ \A s \in Sessions : \A t \in Sessions :
          (/\ sessions[s].at = "done" /\ sessions[t].at = "done"
           /\ sessions[s].key = sessions[t].key)
              => sessions[s].ret = sessions[t].ret
    /\ \A s \in Sessions :
          sessions[s].at = "done" =>
              \/ sessions[s].key \in CacheKeys(svg_cache)
              \/ Len(svg_cache.entries) = maxsize

\* both sessions missed on the same key, both computed, one entry is held
C17_Witness ==
    /\ sessions["s1"].at = "done"
    /\ sessions["s2"].at = "done"
    /\ sessions["s1"].key = sRing
    /\ sessions["s2"].key = sRing
    /\ lookups = <<sRing, sRing>>
    /\ svg_cache.misses = 2
    /\ svg_cache.calls = 2
    /\ Len(svg_cache.entries) = 1

\* C18: the capacity of the render cache is the "SVG Cache Size" the
\* user has set: the cache holds at most that many entries and the
\* statistics report that capacity.
C18_ConfiguredCapacity ==
    (app = 3 /\ pc = "idle" /\ displayed)
        => /\ Len(svg_cache.entries) <= cache_size
           /\ maxsize = cache_size

\* C19: every run started by an interaction goes through filter,
\* pagination, rendering and display to its end; no run in flight is
\* abandoned and started again, also not when a navigation command changes
\* the page.
C19_NoRunAbandoned == [][pc # "idle" => pc' # "main"]_vars

\* C20: in app003 a row with a null in the SMILES column (when a search
\* text is set) or in a slider column is left out of the filtered view,
\* whatever the slider settings, and the filter raises nothing over it.
C20_NullsExcluded ==
    (app = 3 /\ FilterRan)
        => LET rows == FileRows(raw_df)
               cols == SliderColumns(rows, FileColumns(raw_df))
           IN  /\ \A i \in 1..Len(df_filtered) :
                     /\ \A k \in 1..Len(cols) :
                           Cell(rows[df_filtered[i]], df_filtered[i], cols[k])
                               # NaN
                     /\ smiles_search # << >>
                           => rows[df_filtered[i]].SMILES # NoText
               /\ (query = << >> /\ ~RegexRaises(smiles_search))
                     => "Filter error" \notin errors

BuilderUsed == build.on /\ build.val # << >>

\* the query the builder makes: the column in backticks, the operation,
\* the value
BuilderQuery ==
    <<Backtick>> \o build.col \o <<Backtick, " ">> \o build.op \o <<" ">>
        \o build.val

\* C21: in app001 every query made by the Build filter control is rejected
\* by _validate_query, whatever the column, operation and value: the view
\* stays the unfiltered dataset with the "Invalid or unsafe query." error,
\* and only a manually typed query ever filters.
C21_BuilderAlwaysRejected ==
    (app = 1 /\ FilterRan)
        => /\ BuilderUsed =>
                 /\ ~_validate_query(BuilderQuery, QueryColumns(1, raw_df))
                 /\ ~validated
                 /\ ~evaluated
                 /\ df_filtered = AllRows(FileRows(raw_df))
                 /\ "Invalid or unsafe query." \in errors
           /\ df_filtered # AllRows(FileRows(raw_df))
                 => (~BuilderUsed /\ query # << >>)

\* Apply Filter pressed for MW > 300 on a file with such rows, shown
\* unfiltered with the error
C21_Witness ==
    /\ app = 1
    /\ pc = "idle"
    /\ displayed
    /\ uploaded_file = "lib.csv"
    /\ build.on
    /\ build.col = cMW
    /\ build.op = <<">">>
    /\ build.val = <<"3","0","0">>
    /\ n = LibRows
    /\ "Invalid or unsafe query." \in errors

====
